---- MODULE Spec2Model ----
(***************************************************************************)
(* State-machine model of be/scripts/upload_sb_accounts.py: the cell       *)
(* cleaning functions, the per-row reconciliation of persons and accounts  *)
(* against the store, and the process life cycle (connect, read, loop,     *)
(* verify, disconnect, exit).                                              *)
(*                                                                         *)
(* Text is a sequence of one-character strings, so that trimming and digit *)
(* extraction are computed character by character.  Decimal values are     *)
(* integers (the bounded inputs carry no fractional part).                 *)
(***************************************************************************)
EXTENDS Integers, Sequences, FiniteSets, TLC

VARIABLES
    pc,             \* position of the process: start, open, loop, finally, main, exited
    run,            \* which invocation of the script this is: "first" or "second"
    fatal,          \* an exception is propagating out of upload_sb_accounts
    exitCode,       \* "none" while running, then 0 or 1
    connects,       \* successful prisma.connect() calls of this process
    disconnects,    \* prisma.disconnect() calls of this process
    persons,        \* the store's User table: a set of records
    accounts,       \* the store's UserAccount table: a set of records
    rows,           \* the rows of sheet SB, in order
    index,          \* number of rows the loop has consumed (the next DataFrame index)
    success_count,
    error_count,
    errors,
    last,           \* history: what the most recent loop iteration did
    refPersons,     \* history: the store of the same schedule with no store failure
    refAccounts,
    refLast,        \* history: what the failure-free schedule did on the same row
    failedDigits,   \* history: derived digits of every row that raised so far
    snap,           \* history: the store as the first invocation left it
    runClean,       \* history: no failure of any kind in this invocation so far
    acctsAtStart,   \* history: number of accounts when this invocation started
    env,            \* which faults the environment may inject: "store", "process"
    value,          \* cleaning harness: the raw cell value
    cleaned,        \* cleaning harness: clean_string(value)
    recleaned,      \* cleaning harness: clean_string(cleaned)
    stage           \* cleaning harness: 0 raw, 1 cleaned, 2 cleaned twice

procVars  == <<pc, run, fatal, exitCode, connects, disconnects>>
storeVars == <<persons, accounts>>
loopVars  == <<rows, index, success_count, error_count, errors>>
histVars  == <<last, refPersons, refAccounts, refLast, failedDigits, snap, runClean, acctsAtStart>>
envVars   == <<env>>
cleanVars == <<value, cleaned, recleaned, stage>>
vars == <<procVars, storeVars, loopVars, histVars, envVars, cleanVars>>

----------------------------------------------------------------------------
(* Bounds *)

MaxRows == 2        \* rows in the sheet
MaxStrLen == 4      \* length of a raw text cell in the cleaning harness

----------------------------------------------------------------------------
(* Text and cell values *)

NaNText == <<"N", "a", "N">>
HeaderLabel == <<"A","c","c","o","u","n","t"," ","N","u","m","b","e","r">>
Whitespace == {" "}
DigitChars == {"0","1","2","3","4","5","6","7","8","9"}
DigitOf == [c \in DigitChars |->
              CASE c = "0" -> 0 [] c = "1" -> 1 [] c = "2" -> 2 [] c = "3" -> 3
                [] c = "4" -> 4 [] c = "5" -> 5 [] c = "6" -> 6 [] c = "7" -> 7
                [] c = "8" -> 8 [] c = "9" -> 9]
CharOfDigit == [d \in 0..9 |-> IF d = 0 THEN "0" ELSE <<"1","2","3","4","5","6","7","8","9">>[d]]

\* A Python value as the script sees it: None, the float NaN pandas gives for
\* an empty cell, a str, or a number.  Every value carries the three fields
\* so that any two values can be compared.
None == [k |-> "none", s |-> << >>, n |-> 0]
NaN == [k |-> "nan", s |-> << >>, n |-> 0]
Txt(s) == [k |-> "str", s |-> s, n |-> 0]
Num(n) == [k |-> "num", s |-> << >>, n |-> n]

\* pd.isna(value) or value is None
IsNa(v) == v.k \in {"none", "nan"}

RECURSIVE NatToText(_)
NatToText(n) ==
    IF n < 10 THEN <<CharOfDigit[n]>> ELSE NatToText(n \div 10) \o <<CharOfDigit[n % 10]>>

\* str(value): a str is itself, a number is its decimal notation.
Str(v) ==
    CASE v.k = "str" -> v.s
      [] v.k = "num" -> (IF v.n < 0 THEN <<"-">> \o NatToText(0 - v.n) ELSE NatToText(v.n))
      [] v.k = "none" -> <<"N", "o", "n", "e">>
      [] v.k = "nan" -> <<"n", "a", "n">>

RECURSIVE LStrip(_)
LStrip(s) == IF s # << >> /\ Head(s) \in Whitespace THEN LStrip(Tail(s)) ELSE s

RECURSIVE RStrip(_)
RStrip(s) ==
    IF s # << >> /\ s[Len(s)] \in Whitespace THEN RStrip(SubSeq(s, 1, Len(s) - 1)) ELSE s

\* str.strip()
Strip(s) == RStrip(LStrip(s))

\* The str branch of clean_string, on t = str(value).strip().
TextOrNone(t) == IF t = NaNText THEN None ELSE Txt(t)

clean_string(v) == IF IsNa(v) THEN None ELSE TextOrNone(Strip(Str(v)))

\* Decimal(text): optional surrounding whitespace, optional sign, digits.
\* Anything else raises, which clean_number turns into zero.
Unsigned(t) == IF t # << >> /\ t[1] \in {"-", "+"} THEN Tail(t) ELSE t

DecimalBody(s) == Unsigned(Strip(s))

AllDigits(b) == b # << >> /\ \A i \in 1..Len(b) : b[i] \in DigitChars

DecimalParses(s) == AllDigits(DecimalBody(s))

RECURSIVE DigitsValue(_)
DigitsValue(b) ==
    IF b = << >> THEN 0
    ELSE 10 * DigitsValue(SubSeq(b, 1, Len(b) - 1)) + DigitOf[b[Len(b)]]

Signed(negative, m) == IF negative THEN 0 - m ELSE m

DecimalValue(s) == Signed(Strip(s)[1] = "-", DigitsValue(DecimalBody(s)))

\* The str branch of clean_number, on s = str(value).
DecimalOrZero(s) ==
    IF Strip(s) = NaNText THEN 0
    ELSE IF DecimalParses(s) THEN DecimalValue(s) ELSE 0

clean_number(v) == IF IsNa(v) THEN 0 ELSE DecimalOrZero(Str(v))

\* Python truthiness of a value that is None or a str: None and "" are falsy.
Truthy(v) == v.k = "str" /\ v.s # << >>

NoneIfFalsy(cleaned_text) == IF ~Truthy(cleaned_text) THEN None ELSE cleaned_text

generate_account_number(original_account_number) ==
    NoneIfFalsy(clean_string(original_account_number))

RECURSIVE FilterDigits(_)
FilterDigits(s) ==
    IF s = << >> THEN << >>
    ELSE (IF Head(s) \in DigitChars THEN <<Head(s)>> ELSE << >>) \o FilterDigits(Tail(s))

SixZeros == <<"0","0","0","0","0","0">>

NumbersOrZeros(numbers) == IF numbers # << >> THEN numbers ELSE SixZeros

generate_user_id_number(account_number) ==
    IF ~Truthy(account_number) THEN SixZeros
    ELSE NumbersOrZeros(FilterDigits(Str(account_number)))

----------------------------------------------------------------------------
(* The store and the records the importer builds *)

DEFAULT_INTEREST_RATE == 4
DEFAULT_OPENING_DATE == <<2024, 1, 1>>
CountryPrefix == <<"+", "9", "7", "7">>

\* datetime.now() as a tick that grows with the invocation and the row.
Now(r, i) == (IF r = "first" THEN 0 ELSE MaxRows + 1) + i + 1

\* The store gives each created record a fresh id.
FreshId(S) == Cardinality(S) + 1

UserData(full_name, user_id_number) ==
    [fullName |-> Str(full_name),
     dateOfBirth |-> <<1990, 1, 1>>,
     gender |-> None,
     contactNumber |-> CountryPrefix \o user_id_number,
     email |-> None,
     address |-> "Kathmandu, Nepal",
     idType |-> "CITIZENSHIP",
     idNumber |-> user_id_number,
     userType |-> "SB",
     isActive |-> TRUE]

WithId(data, id) == [f \in DOMAIN data \cup {"id"} |-> IF f = "id" THEN id ELSE data[f]]

\* where = {OR: [{idNumber: ...}, {contactNumber: ...}]}
UserMatches_IdAndContact(P, user_data) ==
    {u \in P : u.idNumber = user_data.idNumber /\ u.contactNumber = user_data.contactNumber}

UserMatches_WrongColumn(P, user_data) ==
    {u \in P : u.idNumber = user_data.contactNumber}

UserMatches(P, user_data) ==
    {u \in P : u.idNumber = user_data.idNumber \/ u.contactNumber = user_data.contactNumber}

ChooseBalance_NotNegative(jestha_balance, ashad_balance) ==
    IF ashad_balance >= 0 THEN ashad_balance ELSE jestha_balance

ChooseBalance(jestha_balance, ashad_balance) ==
    IF ashad_balance > 0 THEN ashad_balance ELSE jestha_balance

AccountData(account_number, user_id, jestha_balance, ashad_balance, now) ==
    [accountNumber |-> Str(generate_account_number(account_number)),
     userId |-> user_id,
     balance |-> ChooseBalance(jestha_balance, ashad_balance),
     interestRate |-> DEFAULT_INTEREST_RATE,
     openingDate |-> DEFAULT_OPENING_DATE,
     lastTransactionDate |-> now,
     status |-> "ACTIVE",
     accountType |-> "SB"]

\* where = {accountNumber: ...}
AccountMatches_OfSameOwner(A, account_data) ==
    {a \in A : a.accountNumber = account_data.accountNumber /\ a.userId = account_data.userId}

AccountMatches(A, account_data) ==
    {a \in A : a.accountNumber = account_data.accountNumber}

\* useraccount.update(where = {id}, data = {balance})
UpdateAccount_WholeRecord(A, existing_account, account_data) ==
    (A \ {existing_account}) \cup {WithId(account_data, existing_account.id)}

UpdateAccount(A, existing_account, account_data) ==
    (A \ {existing_account}) \cup {[existing_account EXCEPT !.balance = account_data.balance]}

\* if not full_name or not account_number: continue
MissingEssential_NoneOnly(full_name, account_number) ==
    full_name = None \/ account_number = None

MissingEssential(full_name, account_number) ==
    ~Truthy(full_name) \/ ~Truthy(account_number)

\* if full_name == 'Account Number' or account_number == 'Account Number': continue
IsHeaderRow(full_name, account_number) ==
    full_name = Txt(HeaderLabel) \/ account_number = Txt(HeaderLabel)

ErrorRowNumber_ZeroBased(i) == i

\* 'row': index + 1
ErrorRowNumber(i) == i + 1

----------------------------------------------------------------------------
(* One iteration of the row loop, as a function of the store it meets *)

FailPoints == {"find_person", "create_person", "find_account", "create_account", "update_account"}
NoPick == [id |-> 0]

\* find_first returns some matching record (the query names no order), or nothing.
Picks(M) == IF M = {} THEN {NoPick} ELSE M

Cells(row) ==
    [full_name |-> clean_string(row.name),
     account_number |-> clean_string(row.acct),
     jestha_balance |-> clean_number(row.jestha),
     ashad_balance |-> clean_number(row.ashad)]

UserDataOf(c) == UserData(c.full_name, generate_user_id_number(c.account_number))

\* What an iteration leaves behind: the store, the store operations it issued
\* in order, whether it raised, and what it did to the person and the account.
Outcome(P, A, ops, raised, person, account, balance, uid) ==
    [persons |-> P, accounts |-> A, ops |-> ops, raised |-> raised,
     person |-> person, account |-> account, balance |-> balance, uid |-> uid]

PersonOps(found) ==
    IF found THEN <<"find_person">> ELSE <<"find_person", "create_person">>

PersonDid(found) == IF found THEN "reused" ELSE "created"

\* Lines 146-165, with the person resolved: P1 is the store's persons after
\* lines 116-132, ops the operations issued so far.
AccountStep(P, P1, A, found, account_data, uid, ops, fail, apick) ==
    IF fail = "find_person"
    THEN Outcome(P, A, <<"find_person">>, TRUE, "none", "none", 0, uid)
    ELSE IF ~found /\ fail = "create_person"
    THEN Outcome(P, A, ops, TRUE, "none", "none", 0, uid)
    ELSE IF fail = "find_account"
    THEN Outcome(P1, A, Append(ops, "find_account"), TRUE, PersonDid(found), "none",
                 account_data.balance, uid)
    ELSE IF apick = NoPick
    THEN (IF fail = "create_account"
          THEN Outcome(P1, A, ops \o <<"find_account", "create_account">>, TRUE,
                       PersonDid(found), "none", account_data.balance, uid)
          ELSE Outcome(P1, A \cup {WithId(account_data, FreshId(A))},
                       ops \o <<"find_account", "create_account">>, FALSE,
                       PersonDid(found), "created", account_data.balance, uid))
    ELSE IF account_data.balance # apick.balance
    THEN (IF fail = "update_account"
          THEN Outcome(P1, A, ops \o <<"find_account", "update_account">>, TRUE,
                       PersonDid(found), "none", account_data.balance, uid)
          ELSE Outcome(P1, UpdateAccount(A, apick, account_data),
                       ops \o <<"find_account", "update_account">>, FALSE,
                       PersonDid(found), "updated", account_data.balance, uid))
    ELSE Outcome(P1, A, Append(ops, "find_account"), FALSE, PersonDid(found), "unchanged",
                 account_data.balance, uid)

\* user = existing_user, or the record user.create returns.
ResolvedUser(P, user_data, upick) ==
    IF upick # NoPick THEN upick ELSE WithId(user_data, FreshId(P))

\* Lines 116-144, with the candidate person built.
PersonStep(P, A, c, user_data, user, fail, upick, apick, now) ==
    AccountStep(P, IF upick # NoPick THEN P ELSE P \cup {user}, A, upick # NoPick,
                AccountData(c.account_number, user.id, c.jestha_balance, c.ashad_balance, now),
                user_data.idNumber, PersonOps(upick # NoPick), fail, apick)

\* Lines 88-113, with the cells cleaned: the two gates, then the candidate person.
GateStep(P, A, c, user_data, fail, upick, apick, now) ==
    IF MissingEssential(c.full_name, c.account_number)
    THEN Outcome(P, A, << >>, FALSE, "none", "none", 0, << >>)
    ELSE IF IsHeaderRow(c.full_name, c.account_number)
    THEN Outcome(P, A, << >>, FALSE, "none", "none", 0, << >>)
    ELSE PersonStep(P, A, c, user_data, ResolvedUser(P, user_data, upick), fail, upick,
                    apick, now)

CellStep(P, A, c, fail, upick, apick, now) ==
    GateStep(P, A, c, UserDataOf(c), fail, upick, apick, now)

\* Lines 82-165.  fail names the store operation that raises (or "none");
\* upick and apick are what the two find_first calls return.
RowStep(P, A, row, fail, upick, apick, now) ==
    CellStep(P, A, Cells(row), fail, upick, apick, now)

\* What user.find_first may return for the row.
UserPicks(P, row) == Picks(UserMatches(P, UserDataOf(Cells(row))))

AccountPicksOf(P, A, c, user_data, upick) ==
    Picks(AccountMatches(A, AccountData(c.account_number,
                                        ResolvedUser(P, user_data, upick).id,
                                        c.jestha_balance, c.ashad_balance, 0)))

AccountPicksCells(P, A, c, upick) == AccountPicksOf(P, A, c, UserDataOf(c), upick)

\* What useraccount.find_first may return for the row, the person being resolved.
AccountPicks(P, A, row, upick) == AccountPicksCells(P, A, Cells(row), upick)

RefStepPicked(P, A, row, upick, now) ==
    RowStep(P, A, row, "none", upick, CHOOSE a \in AccountPicks(P, A, row, upick) : TRUE, now)

\* The same iteration with no store failure, on the reference store.
RefStep(P, A, row, now) ==
    RefStepPicked(P, A, row, CHOOSE u \in UserPicks(P, row) : TRUE, now)

----------------------------------------------------------------------------
(* Inputs: the sheet and the store the first invocation meets *)

NameRam == Txt(<<"R", "a", "m">>)
AcctA1 == Txt(<<"A", "1">>)
AcctA1Padded == Txt(<<" ", "A", "1">>)
AcctA2 == Txt(<<"A", "2">>)
Blank == Txt(<<" ">>)
PaddedNaN == Txt(<<" ", "N", "a", "N">>)

Row(n, a, j, h) == [name |-> n, acct |-> a, jestha |-> j, ashad |-> h]

\* Rows that reach the store: two spellings of one account, a numeric cell with
\* the same digits, an account with other digits; later balance absent or set.
ImportRows ==
    {Row(NameRam, a, Num(100), h) : a \in {AcctA1, AcctA2}, h \in {NaN, Num(150)}}
    \cup {Row(NameRam, AcctA1Padded, Num(100), Num(150)), Row(NameRam, Num(1), Num(100), NaN)}

\* Rows with a missing, blank, "NaN" or header-label name or account, and one valid row.
SkipRows ==
    {Row(n, AcctA1, Num(100), Num(150)) :
        n \in {NaN, Blank, Txt(<< >>), PaddedNaN, Txt(HeaderLabel), NameRam}}
    \cup {Row(NameRam, a, Num(100), Num(150)) : a \in {NaN, Blank, Txt(NaNText), Txt(HeaderLabel)}}
    \cup {Row(NaN, NaN, Num(100), Num(150))}

\* Rows of one account whose two balance cells vary: missing, zero, positive,
\* negative, numeric text and malformed text.
BalanceRows ==
    {Row(NameRam, AcctA1, j, h) : j \in {Num(100), Num(-5), Txt(<<"x">>)},
                                  h \in {Num(0), Num(150), Num(-5)}}
    \cup {Row(NameRam, AcctA1, Num(100), Txt(<<" ", "7">>)), Row(NameRam, AcctA1, NaN, NaN)}

SeqsUpTo(S, n) == UNION {[1..k -> S] : k \in 0..n}

Person(id, name, idNumber, contactDigits) ==
    WithId([UserData(Txt(name), idNumber) EXCEPT !.contactNumber = CountryPrefix \o contactDigits],
           id)

Account(id, number, owner, balance, status) ==
    [id |-> id, accountNumber |-> number, userId |-> owner, balance |-> balance,
     interestRate |-> 5, openingDate |-> <<2020, 1, 1>>, lastTransactionDate |-> 0,
     status |-> status, accountType |-> "SB"]

EmptyStore == [persons |-> {}, accounts |-> {}]

\* Account A1 exists already, owned by the person the rows resolve to.
StoreWithOwner ==
    [persons |-> {Person(1, <<"O">>, <<"1">>, <<"1">>)},
     accounts |-> {Account(1, <<"A", "1">>, 1, 150, "ACTIVE")}]

\* Account A1 is owned by a person with other digits; two more persons match
\* digits "1", one by identification number and one by contact number.
StoreWithStranger ==
    [persons |-> {Person(1, <<"O">>, <<"7">>, <<"7">>),
                  Person(2, <<"P">>, <<"1">>, <<"9">>),
                  Person(3, <<"Q">>, <<"9">>, <<"1">>)},
     accounts |-> {Account(1, <<"A", "1">>, 1, 100, "DORMANT")}]

NoLast == [row |-> 0, fail |-> "none", escaped |-> FALSE, ops |-> << >>, raised |-> FALSE,
           person |-> "none", account |-> "none", balance |-> 0, uid |-> << >>]
NoSnap == [taken |-> FALSE, clean |-> FALSE, exitCode |-> -1, persons |-> {}, accounts |-> {}]

HarnessIdle ==
    /\ value = None
    /\ cleaned = None
    /\ recleaned = None
    /\ stage = 0

\* The state before the first invocation: a sheet over pool, one of stores, and
\* an environment that may inject the faults named in faults.
InitOver(pool, stores, faults) ==
    /\ rows \in SeqsUpTo(pool, MaxRows)
    /\ \E st \in stores :
          /\ persons = st.persons
          /\ accounts = st.accounts
          /\ refPersons = st.persons
          /\ refAccounts = st.accounts
          /\ acctsAtStart = Cardinality(st.accounts)
    /\ env = faults
    /\ pc = "start"
    /\ run = "first"
    /\ fatal = FALSE
    /\ exitCode = -1
    /\ connects = 0
    /\ disconnects = 0
    /\ index = 0
    /\ success_count = 0
    /\ error_count = 0
    /\ errors = << >>
    /\ last = NoLast
    /\ refLast = NoLast
    /\ failedDigits = {}
    /\ snap = NoSnap
    /\ runClean = TRUE
    /\ HarnessIdle

\* Reconciliation against an empty and a populated store, store operations may fail.
Init == InitOver(ImportRows, {EmptyStore, StoreWithStranger}, {"store"})

\* The validity and header gates.
InitSkip == InitOver(SkipRows, {StoreWithOwner}, {"store"})

\* The balance rule.
InitBalance == InitOver(BalanceRows, {StoreWithOwner}, {"store"})

\* The process life cycle: every step of the process may fail.
InitProcess ==
    InitOver({Row(NameRam, AcctA1, Num(100), Num(150)), Row(NaN, AcctA1, Num(100), NaN)},
             {EmptyStore}, {"store", "process"})

OkChoices == IF "process" \in env THEN BOOLEAN ELSE {TRUE}
InputChoices == IF "process" \in env THEN {"ok", "missing", "unreadable"} ELSE {"ok"}
FailChoices == (IF "store" \in env THEN FailPoints ELSE {}) \cup {"none"}
EscapeChoices == IF "process" \in env THEN BOOLEAN ELSE {FALSE}

----------------------------------------------------------------------------
(* The process: upload_sb_accounts() under main() *)

\* Where an exception raised inside the try block of upload_sb_accounts goes:
\* the except clause re-raises it and the finally clause runs.
OnFatal_SkipFinally == "main"

OnFatal == "finally"

\* await prisma.connect(), outside the try block: a failure reaches main() directly.
Connect ==
    /\ pc = "start"
    /\ \E ok \in OkChoices :
          IF ok
          THEN /\ connects' = connects + 1
               /\ pc' = "open"
               /\ UNCHANGED <<fatal, runClean>>
          ELSE /\ fatal' = TRUE
               /\ runClean' = FALSE
               /\ pc' = "main"
               /\ UNCHANGED connects
    /\ UNCHANGED <<run, exitCode, disconnects, storeVars, loopVars, envVars, cleanVars>>
    /\ UNCHANGED <<last, refPersons, refAccounts, refLast, failedDigits, snap, acctsAtStart>>

\* Lines 61-78: the file check, read_excel and the counters' initialisation.
ReadInput ==
    /\ pc = "open"
    /\ \E input \in InputChoices :
          IF input = "ok"
          THEN /\ pc' = "loop"
               /\ UNCHANGED <<fatal, runClean>>
          ELSE /\ fatal' = TRUE
               /\ runClean' = FALSE
               /\ pc' = OnFatal
    /\ index' = 0
    /\ success_count' = 0
    /\ error_count' = 0
    /\ errors' = << >>
    /\ UNCHANGED <<run, exitCode, connects, disconnects, storeVars, rows, envVars, cleanVars>>
    /\ UNCHANGED <<last, refPersons, refAccounts, refLast, failedDigits, snap, acctsAtStart>>

History(res, fail, escaped) ==
    [row |-> index + 1, fail |-> fail, escaped |-> escaped, ops |-> res.ops,
     raised |-> res.raised, person |-> res.person, account |-> res.account,
     balance |-> res.balance, uid |-> res.uid]

\* The reference store takes the same row with no failure.
Shadow(res) ==
    \E ref \in {RefStep(refPersons, refAccounts, rows[index + 1], Now(run, index))} :
       /\ refPersons' = ref.persons
       /\ refAccounts' = ref.accounts
       /\ refLast' = History(ref, "none", FALSE)
       /\ failedDigits' = IF res.raised THEN failedDigits \cup {res.uid} ELSE failedDigits
       /\ runClean' = (runClean /\ ~res.raised)

\* One iteration of the loop, lines 80-177: the row is skipped or reconciled,
\* or a store operation raises.  What it raises is an Exception, which the
\* row's handler records before the loop goes on, or something that is no
\* Exception (an interrupt, a cancellation), which neither handler of
\* upload_sb_accounts catches: it leaves through finally.
ProcessRow ==
    /\ pc = "loop"
    /\ index < Len(rows)
    /\ \E row \in {rows[index + 1]} :
       \E fail \in FailChoices :
       \E escapes \in EscapeChoices :
       \E upick \in UserPicks(persons, row) :
       \E apick \in AccountPicks(persons, accounts, row, upick) :
       \E res \in {RowStep(persons, accounts, row, fail, upick, apick, Now(run, index))} :
             /\ (fail = "none") = ~res.raised
             /\ escapes => res.raised
             /\ persons' = res.persons
             /\ accounts' = res.accounts
             /\ last' = History(res, fail, escapes)
             /\ Shadow(res)
             /\ IF escapes
                THEN /\ fatal' = TRUE
                     /\ pc' = "finally"
                     /\ UNCHANGED <<index, success_count, error_count, errors>>
                ELSE /\ success_count' = success_count + (IF res.account = "created" THEN 1 ELSE 0)
                     /\ IF res.raised
                        THEN /\ errors' = Append(errors,
                                    [row |-> ErrorRowNumber(index),
                                     data |-> [fullName |-> clean_string(row.name),
                                               accountNumber |-> clean_string(row.acct)]])
                             /\ error_count' = error_count + 1
                        ELSE UNCHANGED <<errors, error_count>>
                     /\ index' = index + 1
                     /\ UNCHANGED <<fatal, pc>>
    /\ UNCHANGED <<run, exitCode, connects, disconnects, rows, snap, acctsAtStart, envVars, cleanVars>>

\* Lines 179-195: the summary and the two count queries, which may raise.
Verify ==
    /\ pc = "loop"
    /\ index = Len(rows)
    /\ \E ok \in OkChoices :
          IF ok
          THEN /\ pc' = "finally"
               /\ UNCHANGED <<fatal, runClean>>
          ELSE /\ fatal' = TRUE
               /\ runClean' = FALSE
               /\ pc' = OnFatal
    /\ UNCHANGED <<run, exitCode, connects, disconnects, storeVars, loopVars, envVars, cleanVars>>
    /\ UNCHANGED <<last, refPersons, refAccounts, refLast, failedDigits, snap, acctsAtStart>>

\* finally: await prisma.disconnect(), which may itself raise.
Disconnect ==
    /\ pc = "finally"
    /\ disconnects' = disconnects + 1
    /\ \E ok \in OkChoices :
          /\ fatal' = (fatal \/ ~ok)
          /\ runClean' = (runClean /\ ok)
    /\ pc' = "main"
    /\ UNCHANGED <<run, exitCode, connects, storeVars, loopVars, envVars, cleanVars>>
    /\ UNCHANGED <<last, refPersons, refAccounts, refLast, failedDigits, snap, acctsAtStart>>

\* main(): the coroutine returned (status 0) or raised (status 1 by sys.exit(1),
\* or the interpreter's non-zero status for what main() does not catch).
MainExit ==
    /\ pc = "main"
    /\ exitCode' = IF fatal THEN 1 ELSE 0
    /\ pc' = "exited"
    /\ UNCHANGED <<run, fatal, connects, disconnects, storeVars, loopVars, histVars, envVars, cleanVars>>

\* The script is run again over the same sheet.
RunAgain ==
    /\ pc = "exited"
    /\ run = "first"
    /\ run' = "second"
    /\ pc' = "start"
    /\ fatal' = FALSE
    /\ exitCode' = -1
    /\ connects' = 0
    /\ disconnects' = 0
    /\ index' = 0
    /\ success_count' = 0
    /\ error_count' = 0
    /\ errors' = << >>
    /\ last' = NoLast
    /\ refLast' = NoLast
    /\ snap' = [taken |-> TRUE, clean |-> runClean /\ exitCode = 0, exitCode |-> exitCode,
                persons |-> persons, accounts |-> accounts]
    /\ runClean' = TRUE
    /\ acctsAtStart' = Cardinality(accounts)
    /\ UNCHANGED <<storeVars, rows, refPersons, refAccounts, failedDigits, envVars, cleanVars>>

----------------------------------------------------------------------------
(* The cleaning harness: clean_string applied to a raw value, then to its result *)

Alphabet == {" ", "N", "a", "x"}

CleanInputs ==
    {None, NaN}
    \cup {Txt(s) : s \in SeqsUpTo(Alphabet, MaxStrLen)}
    \cup {Num(n) : n \in {0, 7, 120, -3}}

ImporterIdle ==
    /\ pc = "off"
    /\ run = "first"
    /\ fatal = FALSE
    /\ exitCode = -1
    /\ connects = 0
    /\ disconnects = 0
    /\ persons = {}
    /\ accounts = {}
    /\ rows = << >>
    /\ index = 0
    /\ success_count = 0
    /\ error_count = 0
    /\ errors = << >>
    /\ last = NoLast
    /\ refPersons = {}
    /\ refAccounts = {}
    /\ refLast = NoLast
    /\ failedDigits = {}
    /\ snap = NoSnap
    /\ runClean = TRUE
    /\ acctsAtStart = 0
    /\ env = {}

InitClean ==
    /\ value \in CleanInputs
    /\ cleaned = None
    /\ recleaned = None
    /\ stage = 0
    /\ ImporterIdle

ApplyClean ==
    /\ stage = 0
    /\ cleaned' = clean_string(value)
    /\ stage' = 1
    /\ UNCHANGED <<value, recleaned, procVars, storeVars, loopVars, histVars, envVars>>

ApplyAgain ==
    /\ stage = 1
    /\ recleaned' = clean_string(cleaned)
    /\ stage' = 2
    /\ UNCHANGED <<value, cleaned, procVars, storeVars, loopVars, histVars, envVars>>

NextClean ==
    \/ ApplyClean
    \/ ApplyAgain

Next ==
    \/ Connect
    \/ ReadInput
    \/ ProcessRow
    \/ Verify
    \/ Disconnect
    \/ MainExit
    \/ RunAgain

Spec == Init /\ [][Next]_vars
SpecSkip == InitSkip /\ [][Next]_vars
SpecBalance == InitBalance /\ [][Next]_vars
SpecProcess == InitProcess /\ [][Next]_vars
SpecClean == InitClean /\ [][NextClean]_vars

----------------------------------------------------------------------------
(* Vocabulary of the properties, stated on the raw cells of a row *)

\* A step of the loop: the iteration of rows[index + 1] has run.
Stepped == pc = "loop" /\ index < Len(rows) /\ (index' = index + 1 \/ pc' = "finally")

\* A cell that is missing, blank, whitespace-only or "NaN".
AbsentCell(v) ==
    \/ IsNa(v)
    \/ v.k = "str" /\ \A i \in 1..Len(v.s) : v.s[i] \in Whitespace
    \/ v.k = "str" /\ Strip(v.s) = NaNText

LabelCell(v) == v.k = "str" /\ Strip(v.s) = HeaderLabel

ShouldSkip(row) ==
    \/ AbsentCell(row.name)
    \/ AbsentCell(row.acct)
    \/ LabelCell(row.name)
    \/ LabelCell(row.acct)

\* The account identifier and the derived digits of a row that is not skipped.
RowAccountId(row) == Strip(Str(row.acct))
RowDigits(row) ==
    IF \E i \in 1..Len(RowAccountId(row)) : RowAccountId(row)[i] \in DigitChars
    THEN FilterDigits(RowAccountId(row))
    ELSE SixZeros

\* The two balance cells as decimals.
Earlier(row) == clean_number(row.jestha)
Later(row) == clean_number(row.ashad)

SameOutcome(a, b) ==
    /\ a.ops = b.ops
    /\ a.person = b.person
    /\ a.account = b.account
    /\ a.balance = b.balance

----------------------------------------------------------------------------
(* C1 *)

BothRunsClean ==
    /\ run = "second"
    /\ pc = "exited"
    /\ exitCode = 0
    /\ runClean
    /\ snap.clean

\* C1: when no store operation fails, a second run over the same rows ends
\* with the store the first run left: the same persons, the same accounts
\* with the same owners and the same balances, nothing added.
C1_Idempotent ==
    BothRunsClean => (persons = snap.persons /\ accounts = snap.accounts)

\* Both runs completed over a sheet that names one account twice with two
\* balances, and the importer created an account.
C1_Witness ==
    /\ BothRunsClean
    /\ Len(rows) = 2
    /\ RowAccountId(rows[1]) = RowAccountId(rows[2])
    /\ Later(rows[1]) # Later(rows[2])
    /\ \E a \in accounts : a.lastTransactionDate > 0

----------------------------------------------------------------------------
(* C2 *)

AccountIdsUnique ==
    \A a \in accounts : \A b \in accounts : a.accountNumber = b.accountNumber => a = b

PresentIdNeverCreates ==
    (/\ Stepped
     /\ ~ShouldSkip(rows[index + 1])
     /\ \E a \in accounts : a.accountNumber = RowAccountId(rows[index + 1]))
    => (/\ \A i \in 1..Len(last'.ops) : last'.ops[i] # "create_account"
        /\ Cardinality(accounts') = Cardinality(accounts))

\* C2: account identifiers stay unique in the store through every row and
\* both runs, and a row whose identifier is present never creates an account.
C2_AccountIdsUnique == []AccountIdsUnique /\ [][PresentIdNeverCreates]_vars

\* In the second run, the second of two rows naming the same account updated it.
C2_Witness ==
    /\ run = "second"
    /\ last.row = 2
    /\ last.account = "updated"
    /\ RowAccountId(rows[1]) = RowAccountId(rows[2])
    /\ Cardinality(accounts) = 1

----------------------------------------------------------------------------
(* C3 *)

PersonKnown(row) ==
    \E u \in persons :
       \/ u.idNumber = RowDigits(row)
       \/ u.contactNumber = CountryPrefix \o RowDigits(row)

\* C3: create_person is issued for a row only when the store holds no person
\* with the row's digits as identification number and none with the
\* synthesized contact number; when one exists the row adds no person.
C3_PersonCreatedOnce ==
    [][(Stepped /\ ~ShouldSkip(rows[index + 1]))
        => /\ (\E i \in 1..Len(last'.ops) : last'.ops[i] = "create_person")
                => ~PersonKnown(rows[index + 1])
           /\ PersonKnown(rows[index + 1]) => persons' = persons
           /\ Cardinality(persons') <= Cardinality(persons) + 1]_vars

\* The second run reused the person that a row of the first run created
\* before its account step raised, and created the account.
C3_Witness ==
    /\ run = "second"
    /\ last.person = "reused"
    /\ last.account = "created"
    /\ last.uid \in failedDigits
    /\ Cardinality(persons) = 1
    /\ \A u \in persons : u.fullName = NameRam.s

----------------------------------------------------------------------------
(* C4 *)

ErrorRecorded ==
    (Stepped /\ last'.raised /\ ~last'.escaped)
    => (/\ Len(errors') = Len(errors) + 1
        /\ SubSeq(errors', 1, Len(errors)) = errors
        /\ errors'[Len(errors')].row = last'.row
        /\ last'.row = index + 1
        /\ error_count' = error_count + 1
        /\ success_count' = success_count
        /\ index' = index + 1
        /\ pc' = "loop")

LoopVisitsEveryRow ==
    (pc \in {"finally", "main", "exited"} /\ connects = 1 /\ ~fatal) => index = Len(rows)

ErrorsMatchCount == Len(errors) = error_count

\* C4 as stated: whatever row raised, every row that did not raise is
\* processed exactly as the failure-free run processes it.
C4_AsStated ==
    (last.row > 0 /\ ~last.raised) => SameOutcome(last, refLast)

\* C4 as amended: a raising row appends exactly one error entry with its
\* 1-based row number, raises the error count by one and leaves the success
\* count; the loop goes on to every row; and a row that does not raise is
\* processed exactly as in the failure-free run when no row with its
\* derived digits has raised.
C4_RowIsolation ==
    /\ [][ErrorRecorded]_vars
    /\ [](LoopVisitsEveryRow /\ ErrorsMatchCount)
    /\ []((last.row > 0 /\ ~last.raised /\ last.uid \notin failedDigits)
            => SameOutcome(last, refLast))

\* Row 1 raised and is in the error list as row 1; row 2, with other digits,
\* then created its account as it does in the failure-free run.
C4_Witness ==
    /\ run = "first"
    /\ error_count = 1
    /\ errors[1].row = 1
    /\ last.row = 2
    /\ last.account = "created"
    /\ last.uid \notin failedDigits
    /\ success_count = 1

----------------------------------------------------------------------------
(* C5 *)

\* C5: every balance written by create_account or update_account is
\* non-negative, whatever the two balance cells hold.
C5_WrittenBalanceNonNegative ==
    /\ (last.account \in {"created", "updated"} => last.balance >= 0)
    /\ \A a \in accounts : a.balance >= 0

----------------------------------------------------------------------------
(* C6 *)

Reconciled == last.row > 0 /\ last.account \in {"created", "updated", "unchanged"}

\* C6: after a row is reconciled its account holds the later-period balance
\* when that is strictly positive and the earlier-period balance otherwise.
C6_BalancePrecedence ==
    Reconciled =>
        \A a \in accounts :
            a.accountNumber = RowAccountId(rows[last.row]) =>
                a.balance = IF Later(rows[last.row]) > 0
                            THEN Later(rows[last.row])
                            ELSE Earlier(rows[last.row])

\* Earlier 100 with later 0: the account was updated to 100.
C6_Witness ==
    /\ Reconciled
    /\ last.account = "updated"
    /\ rows[last.row].jestha = Num(100)
    /\ rows[last.row].ashad = Num(0)
    /\ \E a \in accounts : a.accountNumber = AcctA1.s /\ a.balance = 100

----------------------------------------------------------------------------
(* C7 *)

\* C7: a row whose name or account identifier is absent, or is the header
\* label, issues no store operation and changes neither the store nor the
\* success count, the error count or the error list.
C7_SkippedRowNoEffect ==
    [][(Stepped /\ ShouldSkip(rows[index + 1]))
        => /\ last'.ops = << >>
           /\ ~last'.raised
           /\ persons' = persons
           /\ accounts' = accounts
           /\ success_count' = success_count
           /\ error_count' = error_count
           /\ errors' = errors
           /\ index' = index + 1]_vars

\* After a reconciled first row, a second row with a blank name was skipped.
C7_Witness ==
    /\ last.row = 2
    /\ index = 2
    /\ rows[2].name = Blank
    /\ ~ShouldSkip(rows[1])
    /\ last.ops = << >>
    /\ error_count = 0

----------------------------------------------------------------------------
(* C8 *)

\* C8: once connect() succeeded disconnect() is called exactly once before
\* the process ends, on every path; the status is 0 when the run completes,
\* row errors or not, and non-zero on a fatal error, never before disconnect().
C8_ConnectionReleased ==
    /\ disconnects <= connects
    /\ connects <= 1
    /\ (pc \in {"main", "exited"} => disconnects = connects)
    /\ (exitCode # -1 => pc = "exited")
    /\ (pc = "exited" => exitCode = IF fatal THEN 1 ELSE 0)
    /\ (exitCode = 0 => connects = 1 /\ disconnects = 1 /\ index = Len(rows))
    /\ ((pc = "exited" /\ connects = 1 /\ index = Len(rows) /\ runClean) => exitCode = 0)

\* The first run completed with status 0 although a row raised; the second
\* was interrupted in a row and ended with a non-zero status after one disconnect().
C8_Witness ==
    /\ run = "second"
    /\ snap.exitCode = 0
    /\ ~snap.clean
    /\ pc = "exited"
    /\ exitCode = 1
    /\ last.escaped
    /\ connects = 1
    /\ disconnects = 1

----------------------------------------------------------------------------
(* C9 *)

TrimmedText(v) == Txt(Strip(Str(v)))

\* C9: clean_string returns None, not an empty string, for a value that is
\* null, blank, whitespace-only or "NaN", the trimmed string form of every
\* other value, and maps its own result to itself.
C9_CleanString ==
    /\ stage >= 1 => cleaned = IF AbsentCell(value) THEN None ELSE TrimmedText(value)
    /\ stage = 2 => recleaned = cleaned

\* What the code does hold to: None for a missing value and for "NaN", the
\* trimmed text (the empty string for a blank one) otherwise, idempotently.
CleanStringAsCoded ==
    /\ stage >= 1 =>
          cleaned = IF IsNa(value) \/ Strip(Str(value)) = NaNText THEN None
                    ELSE TrimmedText(value)
    /\ stage = 2 => recleaned = cleaned

----------------------------------------------------------------------------
(* C10 *)

ExistingAccountStep ==
    (/\ Stepped
     /\ ~ShouldSkip(rows[index + 1])
     /\ \E a \in accounts : a.accountNumber = RowAccountId(rows[index + 1]))
    => (/\ success_count' = success_count
        /\ \A a \in accounts :
              (/\ a.accountNumber = RowAccountId(rows[index + 1])
               /\ last'.fail \notin {"find_person", "create_person", "find_account"})
              => /\ (\E i \in 1..Len(last'.ops) : last'.ops[i] = "update_account")
                       = (last'.balance # a.balance)
                 /\ (last'.balance # a.balance /\ ~last'.raised)
                       => [a EXCEPT !.balance = last'.balance] \in accounts'
        /\ Cardinality(accounts') = Cardinality(accounts)
        /\ \A b \in accounts' : \E a \in accounts : [b EXCEPT !.balance = a.balance] = a)

\* C10: for a row whose account exists, update_account is issued exactly when
\* the computed balance differs from the stored one; it changes the balance
\* alone, the owner included; the success count is untouched, so that it
\* equals the number of accounts the run created.
C10_ExistingAccount ==
    /\ [][ExistingAccountStep]_vars
    /\ [](success_count = Cardinality(accounts) - acctsAtStart)

\* The row resolved to another person than the owner and changed the balance:
\* owner, status, rate and dates of the account are as they were.
C10_Witness ==
    /\ last.account = "updated"
    /\ last.person = "reused"
    /\ \E a \in accounts :
          /\ a.accountNumber = AcctA1.s
          /\ a.balance = 150
          /\ a.userId = 1
          /\ a.status = "DORMANT"
          /\ a.lastTransactionDate = 0
          /\ \A u \in persons : u.id = 1 => u.idNumber # last.uid

====
